---------------------------- MODULE Spec2Model ----------------------------
(***************************************************************************)
(* A model of src/main.rs: the piecewise polynomial interpolation engine   *)
(* (Spline::new, Spline::evaluate) and the nannou front-end that owns the  *)
(* control points (model, update, view, mouse_pressed, mouse_released,     *)
(* mouse_moved, key_pressed).                                              *)
(*                                                                         *)
(* Arithmetic is exact: an f32 is modelled by a rational number <<n, d>>   *)
(* in lowest terms with d > 0.  Vectors are TLA+ sequences; At(v, i) reads *)
(* them with the source's 0-based index.                                   *)
(***************************************************************************)
EXTENDS Integers, Sequences, FiniteSets, TLC

(***************************************************************************)
(* Bounds of the model.                                                    *)
(***************************************************************************)
\* Longest point sequence handed to Spline::new by the engine harness.
MaxN == 4
\* Largest number of control points the front-end lets a click reach.
MaxPoints == 6
\* Most window events delivered between two calls of update.
MaxEvents == 2

(***************************************************************************)
(* Exact rational arithmetic.                                              *)
(***************************************************************************)
Abs(n) == IF n < 0 THEN -n ELSE n

RECURSIVE GCD(_, _)
GCD(a, b) == IF b = 0 THEN a ELSE GCD(b, a % b)

\* The rational n/d (d # 0) in lowest terms with a positive denominator.
Norm(n, d) ==
    IF n = 0 THEN <<0, 1>>
    ELSE LET g == GCD(Abs(n), Abs(d))
         IN  IF d < 0 THEN <<(-n) \div g, (-d) \div g>>
             ELSE <<n \div g, d \div g>>

R(i) == <<i, 1>>
R0 == R(0)

RAdd(p, q) ==
    IF p[2] = q[2] THEN Norm(p[1] + q[1], p[2])
    ELSE LET g == GCD(p[2], q[2])
         IN  Norm(p[1] * (q[2] \div g) + q[1] * (p[2] \div g),
                  (p[2] \div g) * q[2])
RNeg(p) == <<-p[1], p[2]>>
RSub(p, q) == RAdd(p, RNeg(q))
RMul(p, q) ==
    IF p[1] = 0 \/ q[1] = 0 THEN R0
    ELSE LET g1 == GCD(Abs(p[1]), q[2])
             g2 == GCD(Abs(q[1]), p[2])
         IN  Norm((p[1] \div g1) * (q[1] \div g2),
                  (p[2] \div g2) * (q[2] \div g1))
RDiv(p, q) == RMul(p, Norm(q[2], q[1]))
RLt(p, q) == p[1] * q[2] < q[1] * p[2]
RGt(p, q) == RLt(q, p)

\* 0-based read of a vector, as the source indexes it.
At(v, i) == v[i + 1]

(***************************************************************************)
(* Data types.                                                             *)
(***************************************************************************)
\* struct Point { x, y }; Point::new.
Point(x, y) == [x |-> x, y |-> y]

\* enum SplineType.
SplineType == {"Linear", "Quadratic", "Cubic"}

\* Option::None and Option::Some(v).
None == [none |-> TRUE]
Some(v) == [some |-> v]
IsSome(o) == "some" \in DOMAIN o

\* A panic of the process, with its message.
Panic(msg) == [panic |-> msg]
IsPanic(r) == "panic" \in DOMAIN r
IsSpline(r) == "a_coeffs" \in DOMAIN r

(***************************************************************************)
(* Spline::new.                                                            *)
(***************************************************************************)
\* A faulty insertion that moves the new element past one element only.
InsertOneStep(sorted, p) ==
    IF sorted = <<>> THEN <<p>>
    ELSE IF p.x < sorted[Len(sorted)].x
         THEN Append(Append(SubSeq(sorted, 1, Len(sorted) - 1), p),
                     sorted[Len(sorted)])
         ELSE Append(sorted, p)

\* Vec::sort_by(|a, b| a.x.partial_cmp(&b.x)): a stable sort by x; an
\* element goes after every element already placed whose x is not greater.
RECURSIVE InsertByX(_, _)
InsertByX(sorted, p) ==
    IF sorted = <<>> THEN <<p>>
    ELSE IF p.x < sorted[Len(sorted)].x
         THEN Append(InsertByX(SubSeq(sorted, 1, Len(sorted) - 1), p),
                     sorted[Len(sorted)])
         ELSE Append(sorted, p)

\* A faulty Spline::new that forgets to sort its copy of the points.
Unsorted(points) == points

RECURSIVE SortByX(_)
SortByX(points) ==
    IF points = <<>> THEN <<>>
    ELSE InsertByX(SortByX(SubSeq(points, 1, Len(points) - 1)),
                   points[Len(points)])

\* h[i] = x_coords[i + 1] - x_coords[i], i in 0..n-2.
SegmentWidths(sorted_points) ==
    [i \in 1..(Len(sorted_points) - 1) |->
        R(sorted_points[i + 1].x - sorted_points[i].x)]

\* A vector of len zeros: vec![0.0; len].
Zeros(len) == [i \in 1..len |-> R0]

\* SplineType::Linear: b[i] = (a[i+1] - a[i]) / h[i]; c and d stay zero.
LinearCoeffs(a, h, n) ==
    [b |-> [i \in 1..(n - 1) |-> RDiv(RSub(At(a, i), At(a, i - 1)), At(h, i - 1))],
     c |-> Zeros(n - 1),
     d |-> Zeros(n - 1)]

\* The Quadratic loop `for i in 0..n-2`, from the slopes b and curvatures c
\* of segments 0..Len(b)-1: b[i+1] = b[i] + 2 c[i] h[i], and c[i+1] from the
\* interpolation condition of segment i+1.
RECURSIVE QuadraticLoop(_, _, _, _, _)
QuadraticLoop(a, h, n, b, c) ==
    IF Len(b) >= n - 1 THEN [b |-> b, c |-> c]
    ELSE
    LET i == Len(b) - 1
        next_b == IF At(h, i) # R0
                  THEN RAdd(At(b, i), RMul(RMul(R(2), At(c, i)), At(h, i)))
                  ELSE R0
        next_c == IF At(h, i + 1) # R0
                  THEN RDiv(RSub(RSub(At(a, i + 2), At(a, i + 1)),
                                 RMul(next_b, At(h, i + 1))),
                            RMul(At(h, i + 1), At(h, i + 1)))
                  ELSE R0
    IN  QuadraticLoop(a, h, n, Append(b, next_b), Append(c, next_c))

\* SplineType::Quadratic: the secant slope and zero curvature on segment 0,
\* then the loop; d stays zero.
QuadraticCoeffs(a, h, n) ==
    LET b0 == IF At(h, 0) # R0
              THEN RDiv(RSub(At(a, 1), At(a, 0)), At(h, 0))
              ELSE R0
        k == QuadraticLoop(a, h, n, <<b0>>, <<R0>>)
    IN  [b |-> k.b, c |-> k.c, d |-> Zeros(n - 1)]

\* A faulty alpha with the factor 2 in place of 3.
CubicAlphaFactor2(a, h, i) ==
    RMul(R(2), RSub(RDiv(RSub(At(a, i + 1), At(a, i)), At(h, i)),
                    RDiv(RSub(At(a, i), At(a, i - 1)), At(h, i - 1))))

\* alpha[i] = 3 ((a[i+1]-a[i])/h[i] - (a[i]-a[i-1])/h[i-1]), i in 1..n-2.
CubicAlpha(a, h, i) ==
    RMul(R(3), RSub(RDiv(RSub(At(a, i + 1), At(a, i)), At(h, i)),
                    RDiv(RSub(At(a, i), At(a, i - 1)), At(h, i - 1))))

\* A faulty pivot that spans one segment, 2 (x[i+1] - x[i]), not two.
CubicPivotOneSegment(xs, h, mu_prev, i) ==
    RSub(RMul(R(2), R(At(xs, i + 1) - At(xs, i))),
         RMul(At(h, i - 1), mu_prev))

\* l[i] = 2 (x[i+1] - x[i-1]) - h[i-1] mu[i-1], the pivot of row i.
CubicPivot(xs, h, mu_prev, i) ==
    RSub(RMul(R(2), R(At(xs, i + 1) - At(xs, i - 1))),
         RMul(At(h, i - 1), mu_prev))

\* The forward loop `for i in 1..n-1` from the rows 0..Len(rows)-1 of l, mu
\* and z.  A zero pivot stops the loop (the source panics there): mu and z
\* of that row and the rows after it stay at their initial zero.
RECURSIVE CubicForward(_, _, _, _, _)
CubicForward(xs, a, h, n, rows) ==
    IF Len(rows) >= n - 1 THEN rows
    ELSE
    LET i == Len(rows)
        prev == At(rows, i - 1)
        li == CubicPivot(xs, h, prev.mu, i)
        row == IF prev.stop
               THEN [l |-> R0, mu |-> R0, z |-> R0, stop |-> TRUE]
               ELSE IF li = R0
               THEN [l |-> li, mu |-> R0, z |-> R0, stop |-> TRUE]
               ELSE [l |-> li,
                     mu |-> RDiv(At(h, i), li),
                     z |-> RDiv(RSub(CubicAlpha(a, h, i),
                                     RMul(At(h, i - 1), prev.z)),
                                li),
                     stop |-> FALSE]
    IN  CubicForward(xs, a, h, n, Append(rows, row))

\* The forward sweep: l, mu and z as the code leaves them, rows 0..n-1.
\* Row 0 is l = 1, mu = z = 0; row n-1 is l = 1 with mu and z left at zero.
CubicSweep(xs, a, h, n) ==
    Append(CubicForward(xs, a, h, n,
                        <<[l |-> R(1), mu |-> R0, z |-> R0, stop |-> FALSE]>>),
           [l |-> R(1), mu |-> R0, z |-> R0, stop |-> FALSE])

\* Whether the forward sweep met l[i] == 0.0.
CubicSingular(sweep, n) == \E i \in 1..(n - 2) : At(sweep, i).stop

\* c_internal[j] = z[j] - mu[j] c_internal[j+1], j from n-2 down to 0, from
\* the entries tail = c_internal[j+1..n-1] already computed.
RECURSIVE CubicBackward(_, _, _)
CubicBackward(sweep, n, tail) ==
    IF Len(tail) >= n THEN tail
    ELSE
    LET j == n - 1 - Len(tail)
    IN  CubicBackward(sweep, n,
            <<RSub(At(sweep, j).z, RMul(At(sweep, j).mu, tail[1]))>> \o tail)

\* b[j] and d[j] of the backward loop, from c_internal.
CubicB(a, h, c_internal, j) ==
    RSub(RDiv(RSub(At(a, j + 1), At(a, j)), At(h, j)),
         RDiv(RMul(At(h, j),
                   RAdd(At(c_internal, j + 1), RMul(R(2), At(c_internal, j)))),
              R(3)))

\* A faulty d[j] that divides by 2 h[j] in place of 3 h[j].
CubicDHalf(h, c_internal, j) ==
    RDiv(RSub(At(c_internal, j + 1), At(c_internal, j)), RMul(R(2), At(h, j)))

CubicD(h, c_internal, j) ==
    RDiv(RSub(At(c_internal, j + 1), At(c_internal, j)), RMul(R(3), At(h, j)))

\* SplineType::Cubic after the forward sweep: the backward loop and the
\* coefficients it writes.
CubicCoeffs(a, h, n, sweep) ==
    LET c_internal == CubicBackward(sweep, n, <<R0>>)
    IN  [b |-> [k \in 1..(n - 1) |-> CubicB(a, h, c_internal, k - 1)],
         c |-> [k \in 1..(n - 1) |-> At(c_internal, k - 1)],
         d |-> [k \in 1..(n - 1) |-> CubicD(h, c_internal, k - 1)]]

\* Spline::new(points, spline_type): the Spline it returns, or its panic.
SplineNew(points, spline_type) ==
    IF Len(points) < 2
    THEN Panic("Need at least 2 points to interpolate;")
    ELSE
    LET sorted_points == SortByX(points)
        n == Len(sorted_points)
        x_coords == [i \in 1..n |-> sorted_points[i].x]
        y_coords == [i \in 1..n |-> sorted_points[i].y]
        h == SegmentWidths(sorted_points)
    IN  IF \E i \in 1..(n - 1) : h[i] = R0
        THEN Panic("x values must be distinct for spline calculation.")
        ELSE
        LET a_coeffs == [i \in 1..n |-> R(y_coords[i])]
            sweep == IF spline_type = "Cubic"
                     THEN CubicSweep(x_coords, a_coeffs, h, n)
                     ELSE <<>>
        IN  IF spline_type = "Cubic" /\ CubicSingular(sweep, n)
            THEN Panic("Division by zero in cubic spline calculation (l[i])")
            ELSE
            LET k == CASE spline_type = "Linear" -> LinearCoeffs(a_coeffs, h, n)
                       [] spline_type = "Quadratic" -> QuadraticCoeffs(a_coeffs, h, n)
                       [] spline_type = "Cubic" -> CubicCoeffs(a_coeffs, h, n, sweep)
            IN  [points |-> sorted_points,
                 spline_type |-> spline_type,
                 a_coeffs |-> a_coeffs,
                 b_coeffs |-> k.b,
                 c_coeffs |-> k.c,
                 d_coeffs |-> k.d]

(***************************************************************************)
(* Spline::evaluate.                                                       *)
(***************************************************************************)
\* What a call of evaluate ends with: the f32 it returns, or the panic of an
\* index past the end of a vector.
Returns(v) == [oob |-> FALSE, val |-> v]
OutOfBounds == [oob |-> TRUE, val |-> R0]

\* v[i] as Rust reads it: a value when i < v.len(), a panic otherwise.
Has(v, i) == 0 <= i /\ i < Len(v)

\* A faulty scan whose bound is len - 1 in place of len - 2.
RECURSIVE ScanPastLastSegment(_, _, _)
ScanPastLastSegment(points, x, i) ==
    IF i < Len(points) - 1 /\ RGt(x, R(At(points, i + 1).x))
    THEN ScanPastLastSegment(points, x, i + 1)
    ELSE i

\* The scan `while i < len - 2 && x > points[i + 1].x { i += 1 }` from i,
\* for a curve of at least 2 points.
RECURSIVE Scan(_, _, _)
Scan(points, x, i) ==
    IF i < Len(points) - 2 /\ RGt(x, R(At(points, i + 1).x))
    THEN Scan(points, x, i + 1)
    ELSE i

\* The segment index evaluate selects.
SegmentIndex(s, x) == Scan(s.points, x, 0)

\* evaluate for x below the first knot: the Linear model extends segment 0,
\* the others return a[0].
EvaluateBelow(s, x) ==
    IF ~Has(s.a_coeffs, 0) THEN OutOfBounds
    ELSE IF s.spline_type = "Linear" /\ s.b_coeffs # <<>>
    THEN Returns(RAdd(At(s.a_coeffs, 0),
                      RMul(At(s.b_coeffs, 0), RSub(x, R(At(s.points, 0).x)))))
    ELSE Returns(At(s.a_coeffs, 0))

\* A faulty right extrapolation of the Linear model, anchored at the first
\* knot of the last segment in place of the last knot.
EvaluateAboveWrongAnchor(s, x) ==
    LET len == Len(s.points)
        last_segment_idx == IF len >= 2 THEN len - 2 ELSE 0
    IN  IF s.spline_type = "Linear" /\ last_segment_idx < Len(s.b_coeffs)
        THEN Returns(RAdd(At(s.a_coeffs, last_segment_idx),
                          RMul(At(s.b_coeffs, last_segment_idx),
                               RSub(x, R(At(s.points, last_segment_idx + 1).x)))))
        ELSE Returns(At(s.a_coeffs, len - 1))

\* evaluate for x above the last knot: the Linear model extends the last
\* segment's slope from the last knot, the others return a[len - 1].
EvaluateAbove(s, x) ==
    LET len == Len(s.points)
        last_segment_idx == IF len >= 2 THEN len - 2 ELSE 0
        dx_last == At(s.points, last_segment_idx + 1).x
                       - At(s.points, last_segment_idx).x
    IN  IF s.spline_type = "Linear"
           /\ last_segment_idx < Len(s.b_coeffs)
           /\ dx_last # 0
        THEN IF Has(s.a_coeffs, last_segment_idx + 1)
             THEN Returns(RAdd(At(s.a_coeffs, last_segment_idx + 1),
                               RMul(At(s.b_coeffs, last_segment_idx),
                                    RSub(x, R(At(s.points,
                                                 last_segment_idx + 1).x)))))
             ELSE OutOfBounds
        ELSE IF Has(s.a_coeffs, len - 1)
             THEN Returns(At(s.a_coeffs, len - 1))
             ELSE OutOfBounds

\* evaluate inside the knot range, on segment i: a + b dx + c dx^2 + d dx^3
\* with the terms the model has.
EvaluateSegment(s, x, i) ==
    IF ~Has(s.a_coeffs, i) THEN OutOfBounds
    ELSE
    LET dx == RSub(x, R(At(s.points, i).x))
        val0 == At(s.a_coeffs, i)
        val1 == IF i < Len(s.b_coeffs)
                THEN RAdd(val0, RMul(At(s.b_coeffs, i), dx))
                ELSE val0
        val2 == IF s.spline_type \in {"Quadratic", "Cubic"} /\ i < Len(s.c_coeffs)
                THEN RAdd(val1, RMul(RMul(At(s.c_coeffs, i), dx), dx))
                ELSE val1
        val3 == IF s.spline_type = "Cubic" /\ i < Len(s.d_coeffs)
                THEN RAdd(val2, RMul(RMul(RMul(At(s.d_coeffs, i), dx), dx), dx))
                ELSE val2
    IN  Returns(val3)

\* evaluate(&self, x).
evaluate(s, x) ==
    LET len == Len(s.points)
    IN
    IF len = 0 THEN Returns(R0)
    ELSE IF len = 1 THEN Returns(R(At(s.points, 0).y))
    ELSE
    LET i == SegmentIndex(s, x)
    IN  IF RLt(x, R(At(s.points, 0).x)) THEN EvaluateBelow(s, x)
        ELSE IF RGt(x, R(At(s.points, len - 1).x)) THEN EvaluateAbove(s, x)
        ELSE IF x = R(At(s.points, len - 1).x)
        THEN IF Has(s.a_coeffs, len - 1)
             THEN Returns(At(s.a_coeffs, len - 1))
             ELSE OutOfBounds
        ELSE EvaluateSegment(s, x, i)

(***************************************************************************)
(* State.                                                                  *)
(***************************************************************************)
VARIABLES
    control_points,       \* Model.control_points; the engine's input points
    spline,               \* Model.spline: None or the Spline last built
    dragging_point,       \* Model.dragging_point: None or a 0-based index
    show_control_points,  \* Model.show_control_points
    current_spline_type,  \* Model.current_spline_type
    mouse,                \* app.mouse.position()
    pc,                   \* where the run loop stands
    panicked,             \* None, or the panic that ended the process
    events,               \* window events delivered since the last update
    frame,                \* None, or whether the last view drew the curve
    eval_x,               \* the x of the last direct call of evaluate
    eval_y                \* what that call ended with

vars == <<control_points, spline, dragging_point, show_control_points,
          current_spline_type, mouse, pc, panicked, events, frame,
          eval_x, eval_y>>

(***************************************************************************)
(* The engine on its own: Spline::new and evaluate as pure functions of    *)
(* bounded inputs.                                                         *)
(***************************************************************************)
\* Input coordinates: MaxN values of x, the triangular numbers 0, 1, 3, 6,
\* ..., so that MaxN points can have pairwise distinct x and the segment
\* widths differ; and two values of y (the coefficients are linear in y).
EngineXs == {(k * (k + 1)) \div 2 : k \in 0..(MaxN - 1)}
EngineYs == {0, 1}
MaxX == (MaxN * (MaxN - 1)) \div 2
EnginePoints == {Point(x, y) : x \in EngineXs, y \in EngineYs}

\* Every sequence of at most MaxN input points, in any order, duplicates of
\* x included.
EngineInputs == UNION {[1..len -> EnginePoints] : len \in 0..MaxN}

\* The x values evaluate is called with: the half-integers from one below
\* the least input x to one above the greatest.
EngineQueries == {Norm(k, 2) : k \in (-2)..(2 * MaxX + 2)}

EngineInit ==
    /\ control_points \in EngineInputs
    /\ current_spline_type \in SplineType
    /\ spline = None
    /\ dragging_point = None
    /\ show_control_points = TRUE
    /\ mouse = Point(0, 0)
    /\ pc = "engine"
    /\ panicked = None
    /\ events = 0
    /\ frame = None
    /\ eval_x = None
    /\ eval_y = None

\* A call Spline::new(&control_points, current_spline_type): the Spline is
\* kept, or the panic ends the process.
EngineNew ==
    /\ pc = "engine"
    /\ LET r == SplineNew(control_points, current_spline_type)
       IN  IF IsPanic(r)
           THEN panicked' = r /\ spline' = spline
           ELSE spline' = r /\ panicked' = panicked
    /\ pc' = "built"
    /\ UNCHANGED <<control_points, dragging_point, show_control_points,
                   current_spline_type, mouse, events, frame, eval_x, eval_y>>

\* A Spline value of 0 or 1 points, which Spline::new never returns: the
\* struct written out, with a_coeffs filled or left empty.
DegenerateSpline(points, spline_type, with_a) ==
    [points |-> points,
     spline_type |-> spline_type,
     a_coeffs |-> IF with_a THEN [i \in 1..Len(points) |-> R(points[i].y)]
                  ELSE <<>>,
     b_coeffs |-> <<>>,
     c_coeffs |-> <<>>,
     d_coeffs |-> <<>>]

EngineDegenerate ==
    /\ pc = "engine"
    /\ Len(control_points) < 2
    /\ \E with_a \in BOOLEAN :
          spline' = DegenerateSpline(control_points, current_spline_type, with_a)
    /\ pc' = "literal"
    /\ UNCHANGED <<control_points, dragging_point, show_control_points,
                   current_spline_type, mouse, panicked, events, frame,
                   eval_x, eval_y>>

\* A call spline.evaluate(x), once a Spline exists.
EngineEvaluate ==
    /\ pc \in {"built", "literal"}
    /\ panicked = None
    /\ \E x \in EngineQueries :
          /\ eval_x' = x
          /\ eval_y' = evaluate(spline, x)
    /\ pc' = "evaluated"
    /\ UNCHANGED <<control_points, spline, dragging_point, show_control_points,
                   current_spline_type, mouse, panicked, events, frame>>

EngineNext == EngineNew \/ EngineDegenerate \/ EngineEvaluate

EngineSpec == EngineInit /\ [][EngineNext]_vars

(***************************************************************************)
(* The front-end: the nannou application.                                  *)
(***************************************************************************)
\* The five control points of model() and of Key::R.
DefaultPoints ==
    <<Point(-300, 0), Point(-150, 100), Point(0, -100), Point(150, 100),
      Point(300, 0)>>

\* Model.resolution.
resolution == 400

\* The pick radius of mouse_pressed: `distance < 15.0`.
PickRadius == 15

\* Where the cursor can be: the window's centre (where it starts, 100 above
\* the control point (0, -100)), 10 below the control point (-150, 100),
\* and a place whose x no default point has.
MousePositions == {Point(0, 0), Point(-150, 90), Point(75, 50)}

MouseButtons == {"Left", "Right"}
Keys == {"H", "R", "C", "Key1", "Key2", "Key3", "Escape", "Space"}

\* model(app): the state after construction.
Init ==
    /\ control_points = DefaultPoints
    /\ current_spline_type = "Cubic"
    /\ spline = IF Len(DefaultPoints) >= 2
                THEN SplineNew(DefaultPoints, "Cubic")
                ELSE None
    /\ dragging_point = None
    /\ show_control_points = TRUE
    /\ mouse = Point(0, 0)
    /\ pc = "events"
    /\ panicked = None
    /\ events = 0
    /\ frame = None
    /\ eval_x = None
    /\ eval_y = None

\* The process runs: no panic has ended it and app.quit() was not called.
Running == panicked = None /\ pc # "exit"

\* A window event is delivered to its handler: between two frames, while
\* the process runs.
Delivered ==
    /\ Running
    /\ pc = "events"
    /\ events < MaxEvents
    /\ events' = events + 1

\* `distance < 15.0` for the distance between an existing point and the
\* click: the square root is below the radius exactly when the sum of the
\* squares is below the radius squared.
WithinPickRadius(existing_point, point) ==
    (existing_point.x - point.x) * (existing_point.x - point.x)
        + (existing_point.y - point.y) * (existing_point.y - point.y)
    < PickRadius * PickRadius

\* The 0-based indices of the control points a click at `point` hits.
Hits(points, point) ==
    {i \in 0..(Len(points) - 1) : WithinPickRadius(At(points, i), point)}

Min(S) == CHOOSE m \in S : \A k \in S : m <= k
Max(S) == CHOOSE m \in S : \A k \in S : m >= k

\* mouse_pressed(app, model, button): a left click on a control point starts
\* dragging the first one hit; a left click elsewhere pushes a new point (as
\* long as the bound on the number of points allows).
mouse_pressed(button) ==
    /\ Delivered
    /\ IF button = "Left"
       THEN LET point == Point(mouse.x, mouse.y)
                hits == Hits(control_points, point)
            IN  IF hits # {}
                THEN /\ dragging_point' = Some(Min(hits))
                     /\ UNCHANGED control_points
                ELSE /\ Len(control_points) < MaxPoints
                     /\ control_points' = Append(control_points, point)
                     /\ UNCHANGED dragging_point
       ELSE UNCHANGED <<control_points, dragging_point>>
    /\ UNCHANGED <<spline, show_control_points, current_spline_type, mouse,
                   pc, panicked, frame, eval_x, eval_y>>

\* mouse_released(app, model, button).
mouse_released ==
    /\ Delivered
    /\ dragging_point' = None
    /\ UNCHANGED <<control_points, spline, show_control_points,
                   current_spline_type, mouse, pc, panicked, frame,
                   eval_x, eval_y>>

\* mouse_moved(app, model, pos): the cursor is at pos; a dragged point
\* follows it.  The write control_points[idx] panics when idx is past the end.
mouse_moved(pos) ==
    /\ Delivered
    /\ mouse' = pos
    /\ IF IsSome(dragging_point)
       THEN LET idx == dragging_point.some
            IN  IF idx < Len(control_points)
                THEN /\ control_points' =
                            [control_points EXCEPT ![idx + 1] = Point(pos.x, pos.y)]
                     /\ UNCHANGED panicked
                ELSE /\ panicked' = Panic("index out of bounds")
                     /\ UNCHANGED control_points
       ELSE UNCHANGED <<control_points, panicked>>
    /\ UNCHANGED <<spline, dragging_point, show_control_points,
                   current_spline_type, pc, frame, eval_x, eval_y>>

\* A faulty Key::R / Key::C that leaves the drag in place.
DragKept(drag) == drag

\* What Key::R and Key::C leave in dragging_point.
DragAfterReplace(drag) == None

\* key_pressed(app, model, key).
key_pressed(key) ==
    /\ Delivered
    /\ show_control_points' =
           IF key = "H" THEN ~show_control_points ELSE show_control_points
    /\ control_points' =
           CASE key = "R" -> DefaultPoints
             [] key = "C" -> <<>>
             [] OTHER -> control_points
    /\ dragging_point' =
           IF key \in {"R", "C"} THEN DragAfterReplace(dragging_point)
           ELSE dragging_point
    /\ current_spline_type' =
           CASE key = "Key1" -> "Linear"
             [] key = "Key2" -> "Quadratic"
             [] key = "Key3" -> "Cubic"
             [] OTHER -> current_spline_type
    /\ pc' = IF key = "Escape" THEN "exit" ELSE pc
    /\ UNCHANGED <<spline, mouse, panicked, frame, eval_x, eval_y>>

\* A faulty update that builds a spline only when the model has none.
RebuiltOnlyWhenAbsent(points, spline_type, old) ==
    IF old # None THEN old
    ELSE IF Len(points) >= 2 THEN SplineNew(points, spline_type) ELSE None

\* What update leaves in model.spline, or the panic of Spline::new.
Rebuilt(points, spline_type, old) ==
    IF Len(points) >= 2 THEN SplineNew(points, spline_type) ELSE None

\* update(app, model, update): once per frame, after the frame's events and
\* before view.
update ==
    /\ Running
    /\ pc = "events"
    /\ LET r == Rebuilt(control_points, current_spline_type, spline)
       IN  IF IsPanic(r)
           THEN panicked' = r /\ UNCHANGED <<spline, pc>>
           ELSE spline' = r /\ pc' = "view" /\ UNCHANGED panicked
    /\ events' = 0
    /\ UNCHANGED <<control_points, dragging_point, show_control_points,
                   current_spline_type, mouse, frame, eval_x, eval_y>>

\* The x of sample i of 0..resolution in view: min_x + step * i.
SampleX(points, i) ==
    LET xs == {points[k].x : k \in 1..Len(points)}
        min_x == R(Min(xs))
        max_x == R(Max(xs))
        step == RDiv(RSub(max_x, min_x), R(resolution))
    IN  RAdd(min_x, RMul(step, R(i)))

\* Whether view draws the polyline: there is a spline, and the resolution + 1
\* samples of it are at least 2 curve points, none of which evaluate failed
\* to return (of the samples the first and the last are evaluated).
DrawsCurve(s, points) ==
    /\ s # None
    /\ resolution + 1 >= 2
    /\ \A i \in {0, resolution} : ~evaluate(s, SampleX(points, i)).oob

\* view(app, model, frame): draws the curve, the control points and the
\* instructions; it only reads the model.
view ==
    /\ Running
    /\ pc = "view"
    /\ frame' = [curve |-> DrawsCurve(spline, control_points)]
    /\ pc' = "events"
    /\ UNCHANGED <<control_points, spline, dragging_point, show_control_points,
                   current_spline_type, mouse, panicked, events, eval_x, eval_y>>

\* nannou::app(model).update(update).run(): each frame delivers the pending
\* window events to their handlers, then calls update, then view.
Next ==
    \/ \E button \in MouseButtons : mouse_pressed(button)
    \/ mouse_released
    \/ \E pos \in MousePositions : mouse_moved(pos)
    \/ \E key \in Keys : key_pressed(key)
    \/ update
    \/ view

Spec == Init /\ [][Next]_vars

(***************************************************************************)
(* Properties of the engine, under EngineSpec.                             *)
(***************************************************************************)
\* Pairwise distinct x.
DistinctX(points) ==
    \A i, j \in 1..Len(points) : i # j => points[i].x # points[j].x

\* Spline::new was called and returned a Spline.
Built == pc = "built" /\ IsSpline(spline)

\* evaluate was called on a Spline that Spline::new returned (the Splines
\* written out as literals have fewer than 2 points).
Evaluated == pc = "evaluated" /\ Len(spline.points) >= 2

\* The segment widths of the curve in the state.
Width(i) == R(At(spline.points, i + 1).x - At(spline.points, i).x)

\* C1: a curve built by Spline::new passes through every point it was built
\* from: evaluate at the x of an input point, and at the x of a knot,
\* returns that point's y, for each of the three models.
C1_Interpolation ==
    Evaluated =>
        /\ \A k \in 1..Len(control_points) :
              eval_x = R(control_points[k].x)
                  => eval_y = Returns(R(control_points[k].y))
        /\ \A i \in 1..Len(spline.points) :
              eval_x = R(spline.points[i].x)
                  => eval_y = Returns(R(spline.points[i].y))

\* A cubic curve of 4 knots evaluated at its third knot, an interior one,
\* whose y differs from the second knot's.
C1_Witness ==
    /\ Evaluated
    /\ spline.spline_type = "Cubic"
    /\ Len(spline.points) = 4
    /\ spline.points[2].y = 0
    /\ spline.points[3].y = 1
    /\ eval_x = R(spline.points[3].x)
    /\ eval_y = Returns(R(1))

\* The straight line through p and q, at x.
LineThrough(p, q, x) ==
    RAdd(R(p.y), RMul(RDiv(R(q.y - p.y), R(q.x - p.x)), RSub(x, R(p.x))))

\* C2: outside the knot range the Linear model extends the end segment's
\* straight line (a[0] + b[0] (x - x[0]) on the left, a[n-1] + b[n-2]
\* (x - x[n-1]) on the right), and the Quadratic and Cubic models return the
\* y of the nearest end knot.
C2_Extrapolation ==
    Evaluated =>
        LET n == Len(spline.points)
            first == spline.points[1]
            last == spline.points[n]
            linear == spline.spline_type = "Linear"
        IN  /\ RLt(eval_x, R(first.x)) =>
                 /\ eval_y = Returns(
                        IF linear
                        THEN RAdd(At(spline.a_coeffs, 0),
                                  RMul(At(spline.b_coeffs, 0),
                                       RSub(eval_x, R(first.x))))
                        ELSE At(spline.a_coeffs, 0))
                 /\ eval_y = Returns(
                        IF linear
                        THEN LineThrough(first, spline.points[2], eval_x)
                        ELSE R(first.y))
            /\ RGt(eval_x, R(last.x)) =>
                 /\ eval_y = Returns(
                        IF linear
                        THEN RAdd(At(spline.a_coeffs, n - 1),
                                  RMul(At(spline.b_coeffs, n - 2),
                                       RSub(eval_x, R(last.x))))
                        ELSE At(spline.a_coeffs, n - 1))
                 /\ eval_y = Returns(
                        IF linear
                        THEN LineThrough(spline.points[n - 1], last, eval_x)
                        ELSE R(last.y))

\* A Linear curve of 3 knots whose last segment rises, evaluated above the
\* last knot: the value is above the last knot's y.
C2_Witness ==
    /\ Evaluated
    /\ spline.spline_type = "Linear"
    /\ Len(spline.points) = 3
    /\ spline.points[2].y = 0
    /\ spline.points[3].y = 1
    /\ RGt(eval_x, R(spline.points[3].x))
    /\ RGt(eval_y.val, R(1))

\* C3: Spline::new panics, and returns no Spline, when it is given fewer
\* than 2 points, and when two of its points share an x, wherever they
\* stand in the input and whatever the model.
C3_RejectsInvalidInput ==
    pc = "built" =>
        /\ Len(control_points) < 2 =>
              /\ panicked = Panic("Need at least 2 points to interpolate;")
              /\ spline = None
        /\ (Len(control_points) >= 2 /\ ~DistinctX(control_points)) =>
              /\ panicked =
                    Panic("x values must be distinct for spline calculation.")
              /\ spline = None

\* Spline::new has panicked on 4 points of which the first and the last
\* share an x and the two between them lie on either side of it.
C3_Witness ==
    /\ pc = "built"
    /\ Len(control_points) = 4
    /\ control_points[1].x = control_points[4].x
    /\ control_points[2].x > control_points[1].x
    /\ control_points[3].x < control_points[1].x
    /\ panicked = Panic("x values must be distinct for spline calculation.")

\* The input with two neighbours exchanged, for each pair of neighbours.
Swaps(points) ==
    {[points EXCEPT ![i] = points[i + 1], ![i + 1] = points[i]] :
        i \in 1..(Len(points) - 1)}

\* C4: the curve does not depend on the order of the input: its knots are
\* the input points in strictly ascending x, and the input with any two
\* neighbours exchanged gives the same Spline, knots and coefficients, and
\* so the same value of evaluate, which reads nothing but the Spline and x.
\* (Every order of the points is an input, and exchanges of neighbours lead
\* from any order to any other.)
C4_OrderIndependent ==
    Built =>
        /\ Len(spline.points) = Len(control_points)
        /\ {spline.points[i] : i \in 1..Len(spline.points)}
              = {control_points[i] : i \in 1..Len(control_points)}
        /\ \A i \in 1..(Len(spline.points) - 1) :
              spline.points[i].x < spline.points[i + 1].x
        /\ \A q \in Swaps(control_points) :
              SplineNew(q, current_spline_type) = spline

\* A curve built from 4 points given in descending x.
C4_Witness ==
    /\ Built
    /\ Len(control_points) = 4
    /\ \A i \in 1..3 : control_points[i].x > control_points[i + 1].x
    /\ control_points[1].y # control_points[4].y
    /\ spline.points[1] = control_points[4]

\* C5: evaluate always returns: it reads no vector past its end, for a
\* curve built by Spline::new and for a Spline of 0 or 1 points; a built
\* curve of n knots has n entries of a and n - 1 of b, c and d, and the
\* segment selected for x is one of 0..n-2; a Spline of 1 point evaluates to
\* that point's y.
C5_EvaluateTotal ==
    pc = "evaluated" =>
        LET n == Len(spline.points)
        IN  /\ ~eval_y.oob
            /\ n >= 2 =>
                  /\ SegmentIndex(spline, eval_x) \in 0..(n - 2)
                  /\ Len(spline.a_coeffs) = n
                  /\ Len(spline.b_coeffs) = n - 1
                  /\ Len(spline.c_coeffs) = n - 1
                  /\ Len(spline.d_coeffs) = n - 1
            /\ n = 1 => eval_y = Returns(R(spline.points[1].y))

\* A Spline of 1 point and no coefficients, evaluated to that point's y.
C5_Witness ==
    /\ pc = "evaluated"
    /\ Len(spline.points) = 1
    /\ spline.a_coeffs = <<>>
    /\ spline.points[1].y = 1
    /\ eval_y = Returns(R(1))

\* C6: the Cubic model gives a natural cubic spline: at every interior knot
\* i the polynomials of segments i-1 and i agree in value, in first
\* derivative and in second derivative; the second derivative is zero at
\* the first knot and at the last.
C6_NaturalCubic ==
    (Built /\ spline.spline_type = "Cubic") =>
        LET n == Len(spline.points)
            a == spline.a_coeffs
            b == spline.b_coeffs
            c == spline.c_coeffs
            d == spline.d_coeffs
        IN  /\ \A i \in 1..(n - 2) :
                  LET hp == Width(i - 1)
                  IN  /\ RAdd(RAdd(At(a, i - 1), RMul(At(b, i - 1), hp)),
                              RAdd(RMul(At(c, i - 1), RMul(hp, hp)),
                                   RMul(At(d, i - 1), RMul(hp, RMul(hp, hp)))))
                            = At(a, i)
                      /\ RAdd(At(b, i - 1),
                              RAdd(RMul(R(2), RMul(At(c, i - 1), hp)),
                                   RMul(R(3), RMul(At(d, i - 1), RMul(hp, hp)))))
                            = At(b, i)
                      /\ RAdd(RMul(R(2), At(c, i - 1)),
                              RMul(R(6), RMul(At(d, i - 1), hp)))
                            = RMul(R(2), At(c, i))
            /\ At(c, 0) = R0
            /\ RAdd(RMul(R(2), At(c, n - 2)),
                    RMul(R(6), RMul(At(d, n - 2), Width(n - 2)))) = R0

\* A cubic curve of 4 knots with segments of different widths that bends
\* at both interior knots.
C6_Witness ==
    /\ Built
    /\ spline.spline_type = "Cubic"
    /\ Len(spline.points) = 4
    /\ Width(0) # Width(1)
    /\ At(spline.c_coeffs, 1) # R0
    /\ At(spline.c_coeffs, 2) # R0

\* C7: for points of pairwise distinct x Spline::new does not panic, and
\* every pivot l[i], 1 <= i <= n-2, of the cubic forward sweep is strictly
\* positive, with 0 <= mu[i] < 1/2.
C7_PivotsPositive ==
    (pc = "built" /\ Len(control_points) >= 2 /\ DistinctX(control_points)) =>
        /\ panicked = None
        /\ IsSpline(spline)
        /\ spline.spline_type = "Cubic" =>
              LET n == Len(spline.points)
                  sweep == CubicSweep([i \in 1..n |-> spline.points[i].x],
                                      spline.a_coeffs,
                                      [i \in 1..(n - 1) |-> Width(i - 1)], n)
              IN  \A i \in 1..(n - 2) :
                      /\ ~At(sweep, i).stop
                      /\ RGt(At(sweep, i).l, R0)
                      /\ ~RLt(At(sweep, i).mu, R0)
                      /\ RLt(At(sweep, i).mu, Norm(1, 2))

\* A cubic curve of 4 knots with segments of different widths: the sweep
\* has run over two interior rows, the second with a non-zero mu before it.
C7_Witness ==
    /\ Built
    /\ spline.spline_type = "Cubic"
    /\ Len(spline.points) = 4
    /\ Width(0) # Width(1)
    /\ Width(1) # Width(2)

(***************************************************************************)
(* Properties of the front-end, under Spec.                                *)
(***************************************************************************)
\* C8: the front-end hands Spline::new only point sets it accepts: no
\* sequence of events makes update's rebuild panic, and the points update
\* has built a spline from have pairwise distinct x.
C8_RebuildNeverAborts ==
    /\ panicked # Panic("Need at least 2 points to interpolate;")
    /\ panicked # Panic("x values must be distinct for spline calculation.")
    /\ panicked # Panic("Division by zero in cubic spline calculation (l[i])")
    /\ (pc = "view" /\ spline # None) => DistinctX(control_points)

\* C9: when view runs, model.spline is the curve Spline::new builds from the
\* control_points and the current_spline_type of that moment, if there are
\* at least 2 points, and is absent otherwise.
C9_RebuildBeforeRender ==
    pc = "view" =>
        /\ spline # None <=> Len(control_points) >= 2
        /\ Len(control_points) >= 2 =>
              spline = SplineNew(control_points, current_spline_type)

\* view is about to draw, after a frame was already drawn, a Linear curve
\* through more points than the initial ones, one of which is not where a
\* click has put it.
C9_Witness ==
    /\ pc = "view"
    /\ frame # None
    /\ current_spline_type = "Linear"
    /\ Len(control_points) = Len(DefaultPoints) + 1
    /\ control_points[Len(control_points)] # Point(mouse.x, mouse.y)
    /\ IsSpline(spline)
    /\ spline.spline_type = "Linear"

\* C10: whenever dragging_point is Some(idx), idx < control_points.len(), so
\* the write control_points[idx] of mouse_moved is never out of bounds; and
\* a step that leaves the events of a frame for its view, which is update,
\* leaves control_points as it was.
C10_DragIndexValid ==
    /\ [](/\ IsSome(dragging_point) =>
                dragging_point.some < Len(control_points)
          /\ panicked # Panic("index out of bounds"))
    /\ [][(pc = "events" /\ pc' = "view") =>
              control_points' = control_points]_vars

\* A point is being dragged and has followed the cursor, and it is not the
\* last of the control points.
C10_Witness ==
    /\ IsSome(dragging_point)
    /\ dragging_point.some + 1 < Len(control_points)
    /\ At(control_points, dragging_point.some) = Point(mouse.x, mouse.y)
    /\ At(control_points, dragging_point.some) \notin
           {DefaultPoints[k] : k \in 1..Len(DefaultPoints)}

=============================================================================
